---- MODULE Spec2Model ----
(***************************************************************************)
(* Model of src/main.py: the MainWindow of the yt-dlp GUI launcher and its *)
(* DownloadWorker threads.                                                 *)
(*                                                                         *)
(* Text is modelled as a sequence of tokens: a token is one character, one *)
(* literal fragment of an f-string, or one ANSI control sequence.          *)
(* Formatting an f-string is the concatenation of its fragments.           *)
(*                                                                         *)
(* The UI thread runs its handlers (start_download, update_log,            *)
(* download_finished) one at a time from its event loop.  A signal emitted *)
(* by a worker thread is delivered through a queued connection: the call   *)
(* is appended to the UI thread's event queue and the slot runs when the   *)
(* UI thread takes it from the head of the queue.                          *)
(***************************************************************************)
EXTENDS Integers, Sequences, FiniteSets, TLC

\* ------------------------------------------------------------------ bounds
\* inputs from outside the program per run: clicks on the download button
\* and invocations of a progress hook by the library
MaxInputs == 3

\* ------------------------------------------------------------------- text
Whitespace == {" "}

\* ANSI control sequences (colour on / colour off), one token each
AnsiSeqs == {"ESC[0;94m", "ESC[0m"}

RECURSIVE LStrip(_)
LStrip(s) == IF s = <<>> THEN s
             ELSE IF Head(s) \in Whitespace THEN LStrip(Tail(s)) ELSE s

RECURSIVE RStrip(_)
RStrip(s) == IF s = <<>> THEN s
             ELSE IF s[Len(s)] \in Whitespace
                  THEN RStrip(SubSeq(s, 1, Len(s) - 1)) ELSE s

\* str.strip()
Strip(s) == RStrip(LStrip(s))

\* texts the user can have in url_input when the button is clicked
UrlTexts == {<<>>, <<" ">>, <<" ", "u", " ">>}

\* dict.get(key, default)
Get(d, k, default) == IF k \in DOMAIN d THEN d[k] ELSE default

\* status dictionaries the library passes to a progress hook
StatusDicts ==
  { [status |-> "downloading",
     _percent_str |-> <<"ESC[0;94m", "50%", "ESC[0m">>, filename |-> <<"f">>],
    [status |-> "finished"],
    [status |-> "error"] }

\* exceptions the library call can raise (all are subclasses of Exception)
ExceptionClasses == {"DownloadError", "OSError"}
Exceptions == { [cls |-> "DownloadError", text |-> <<"e1">>],
                [cls |-> "OSError", text |-> <<"e2">>] }

\* what happens inside the library during one download attempt:
\*   none     - the media was fetched and post-processed
\*   rejected - the library could not complete the attempt (bad or
\*              unsupported URL, post-processor binary missing)
\*   crash    - an exception that is not a download/post-processing error
Faults == {"none", "rejected", "crash"}

VARIABLES
  log_area,    \* MainWindow.log_area: the appended lines, oldest first; each
               \* line carries the worker and signal it came from (history)
  dirs,        \* directories that exist on the filesystem
  worker,      \* MainWindow.worker: id of the referenced worker, 0 if unset
  w_url,       \* DownloadWorker.url, per worker object
  w_folder,    \* DownloadWorker.output_folder, per worker object
  pc,          \* position of each worker thread
  ydl_opts,    \* the option set built by run, per worker that began run
  exc,         \* the exception caught or pending in run, per worker
  conns,       \* signal connections: <<worker, signal>> -> slot
  queue,       \* UI thread event queue of queued slot calls
  hooked,      \* history: messages emitted on progress_signal, per worker
  emitted,     \* history: messages emitted on finished_signal, per worker
  fault,       \* history: what happened inside the library, per worker
  calls,       \* history: number of library invocations, per worker
  inputs,      \* history: number of clicks and progress hook invocations
  app_running  \* FALSE once an exception escaped a thread's run

vars == <<log_area, dirs, worker, w_url, w_folder, pc, ydl_opts,
          exc, conns, queue, hooked, emitted, fault, calls, inputs, app_running>>

Workers == DOMAIN pc

Init ==
  /\ log_area = <<>>
  /\ dirs = {}
  /\ worker = 0
  /\ w_url = <<>>
  /\ w_folder = <<>>
  /\ pc = <<>>
  /\ ydl_opts = <<>>
  /\ exc = <<>>
  /\ conns = <<>>
  /\ queue = <<>>
  /\ hooked = <<>>
  /\ emitted = <<>>
  /\ fault = <<>>
  /\ calls = <<>>
  /\ inputs = 0
  /\ app_running = TRUE

\* ------------------------------------------------------------ MainWindow

\* a line of log_area written by the window itself
UiLine(text) == [line |-> text, w |-> 0, sig |-> "ui"]

\* variant: the folder is not created
MkpathNoop(d, folder) == d

\* QDir().mkpath(folder)
Mkpath(d, folder) == d \cup {folder}

\* variant: connecting a new worker drops the connections of earlier ones
ConnectReplacing(c, w) ==
  (<<w, "progress_signal">> :> "update_log")
    @@ (<<w, "finished_signal">> :> "download_finished")

\* worker.progress_signal.connect(update_log);
\* worker.finished_signal.connect(download_finished)
Connect(c, w) ==
  c @@ (<<w, "progress_signal">> :> "update_log")
    @@ (<<w, "finished_signal">> :> "download_finished")

\* variant: an empty-URL click writes nothing
EmptyUrlLogSilent(log) == log

\* the log line of an empty-URL click
EmptyUrlLog(log) == Append(log, UiLine(<<"Status: Please enter a URL">>))

\* the button is clicked while url_input.text() is t
StartDownload(t) ==
  /\ app_running
  /\ inputs < MaxInputs
  /\ inputs' = inputs + 1
  /\ LET url == Strip(t) IN
     IF url = <<>>
     THEN /\ log_area' = EmptyUrlLog(log_area)
          /\ UNCHANGED <<dirs, worker, w_url, w_folder, pc, conns, hooked,
                         emitted, fault, calls>>
     ELSE LET output_folder == "Audios"
              w == Len(pc) + 1
          IN /\ log_area' = Append(log_area,
                                   UiLine(<<"Ready to download: ">> \o url))
             /\ dirs' = Mkpath(dirs, output_folder)
             /\ worker' = w
             /\ w_url' = Append(w_url, url)
             /\ w_folder' = Append(w_folder, output_folder)
             /\ conns' = Connect(conns, w)
             /\ pc' = Append(pc, "started")
             /\ hooked' = Append(hooked, <<>>)
             /\ emitted' = Append(emitted, <<>>)
             /\ fault' = Append(fault, "none")
             /\ calls' = Append(calls, 0)
  /\ UNCHANGED <<ydl_opts, exc, queue, app_running>>

\* -------------------------------------------------------- DownloadWorker

\* variant: a lower transcoding quality
YdlOptsLowQuality(w) ==
  [format |-> "bestaudio/best",
   outtmpl |-> <<w_folder[w], "/%(title)s.%(ext)s">>,
   quiet |-> TRUE,
   progress_hooks |-> <<w>>,
   writethumbnail |-> TRUE,
   postprocessors |->
     << [key |-> "FFmpegExtractAudio", preferredcodec |-> "mp3",
         preferredquality |-> "192"],
        [key |-> "EmbedThumbnail", already_have_thumbnail |-> FALSE],
        [key |-> "FFmpegMetadata"] >>,
   convert_thumbnails |-> "jpg",
   ignoreerrors |-> TRUE,
   no_warnings |-> TRUE]

\* the ydl_opts dictionary of run, for worker w
YdlOpts(w) ==
  [format |-> "bestaudio/best",
   outtmpl |-> <<w_folder[w], "/%(title)s.%(ext)s">>,
   quiet |-> TRUE,
   progress_hooks |-> <<w>>,
   writethumbnail |-> TRUE,
   postprocessors |->
     << [key |-> "FFmpegExtractAudio", preferredcodec |-> "mp3",
         preferredquality |-> "320"],
        [key |-> "EmbedThumbnail", already_have_thumbnail |-> FALSE],
        [key |-> "FFmpegMetadata"] >>,
   convert_thumbnails |-> "jpg",
   ignoreerrors |-> TRUE,
   no_warnings |-> TRUE]

\* signal.emit(msg): one queued slot call per connection of the signal
Emit(w, sig, msg) ==
  IF <<w, sig>> \in DOMAIN conns
  THEN << [w |-> w, sig |-> sig, slot |-> conns[<<w, sig>>], msg |-> msg] >>
  ELSE << >>

\* the thread begins run: builds ydl_opts and enters the library call
RunBegin(w) ==
  /\ app_running
  /\ w \in Workers
  /\ pc[w] = "started"
  /\ ydl_opts' = ydl_opts @@ (w :> YdlOpts(w))
  /\ pc' = [pc EXCEPT ![w] = "running"]
  /\ calls' = [calls EXCEPT ![w] = @ + 1]
  /\ UNCHANGED <<log_area, dirs, worker, w_url, w_folder, exc,
                 conns, queue, hooked, emitted, fault, inputs,
                 app_running>>

\* the messages progress_hook emits on progress_signal for status dict d
ProgressHookMsgs(d) ==
  IF d.status = "downloading"
  THEN << <<"Downloading: ">> \o Get(d, "_percent_str", <<>>) \o <<" ">>
             \o Get(d, "filename", <<>>) >>
  ELSE IF d.status = "finished"
  THEN << <<"Converting/Finishing: ">> \o Get(d, "filename", <<>>) >>
  ELSE << >>

\* the library, inside the download of worker w, invokes a registered hook
ProgressHook(w, d) ==
  /\ app_running
  /\ w \in Workers
  /\ pc[w] = "running"
  /\ inputs < MaxInputs
  /\ \E i \in DOMAIN ydl_opts[w].progress_hooks :
       LET h == ydl_opts[w].progress_hooks[i]
           msgs == ProgressHookMsgs(d)
       IN /\ hooked' = [hooked EXCEPT ![h] = @ \o msgs]
          /\ queue' = IF msgs = <<>> THEN queue
                      ELSE queue \o Emit(h, "progress_signal", msgs[1])
  /\ inputs' = inputs + 1
  /\ UNCHANGED <<log_area, dirs, worker, w_url, w_folder, pc,
                 ydl_opts, exc, conns, emitted, fault, calls,
                 app_running>>

\* how the library call ends for a given fault under the given options:
\* a download or post-processing error is raised unless ignoreerrors is set,
\* any other exception is raised whatever the options
YdlDownload(opts, f) ==
  IF f = "crash" THEN "raise"
  ELSE IF f = "rejected" /\ ~opts.ignoreerrors THEN "raise"
  ELSE "return"

\* the library call of worker w ends
DownloadEnds(w, f, e) ==
  /\ app_running
  /\ w \in Workers
  /\ pc[w] = "running"
  /\ fault' = [fault EXCEPT ![w] = f]
  /\ IF YdlDownload(ydl_opts[w], f) = "raise"
     THEN /\ e.cls = (IF f = "rejected" THEN "DownloadError" ELSE "OSError")
          /\ pc' = [pc EXCEPT ![w] = "raised"]
          /\ exc' = exc @@ (w :> e)
     ELSE /\ e = CHOOSE x \in Exceptions : TRUE
          /\ pc' = [pc EXCEPT ![w] = "returned"]
          /\ UNCHANGED exc
  /\ UNCHANGED <<log_area, dirs, worker, w_url, w_folder,
                 ydl_opts, conns, queue, hooked, emitted, calls, inputs, app_running>>

\* variant: the handler catches the library's download errors only
RunCatchesDownloadError(e) == e.cls = "DownloadError"

\* except Exception: the classes the handler of run catches
RunCatches(e) == e.cls \in ExceptionClasses

SuccessMsg(url) == <<"Download finished: ">> \o url
ErrorMsg(e) == <<"Error: ">> \o e.text

\* the exception bound in run when none was raised
NoException == [cls |-> "None", text |-> <<>>]

\* variant: the success message is emitted after the try statement, so it
\* also follows the error message
RunEmitsBoth(p, url, e) ==
  IF p = "returned" THEN << SuccessMsg(url) >>
  ELSE << ErrorMsg(e), SuccessMsg(url) >>

\* the messages run emits on finished_signal when it leaves the try
\* statement at position p (after the library call, or in the except clause)
RunEmits(p, url, e) ==
  IF p = "returned" THEN << SuccessMsg(url) >> ELSE << ErrorMsg(e) >>

\* variant: a failed attempt is run again
RunResultRetry(p) == IF p = "returned" THEN "succeeded" ELSE "started"

\* the position run ends in
RunResult(p) == IF p = "returned" THEN "succeeded" ELSE "failed"

RECURSIVE EmitAll(_, _, _)
EmitAll(w, sig, msgs) ==
  IF msgs = <<>> THEN <<>>
  ELSE Emit(w, sig, Head(msgs)) \o EmitAll(w, sig, Tail(msgs))

\* run leaves the try statement and returns
RunFinish(w) ==
  /\ app_running
  /\ w \in Workers
  /\ pc[w] \in {"returned", "raised"}
  /\ LET e == IF w \in DOMAIN exc THEN exc[w] ELSE NoException IN
     IF pc[w] = "raised" /\ ~RunCatches(e)
     THEN /\ app_running' = FALSE
          /\ pc' = [pc EXCEPT ![w] = "failed"]
          /\ UNCHANGED <<emitted, queue>>
     ELSE LET msgs == RunEmits(pc[w], w_url[w], e) IN
          /\ emitted' = [emitted EXCEPT ![w] = @ \o msgs]
          /\ queue' = queue \o EmitAll(w, "finished_signal", msgs)
          /\ pc' = [pc EXCEPT ![w] = RunResult(pc[w])]
          /\ UNCHANGED app_running
  /\ UNCHANGED <<log_area, dirs, worker, w_url, w_folder, ydl_opts, exc,
                 conns, hooked, fault, calls, inputs>>

\* ------------------------------------------------------ UI event delivery

\* the queued call the UI thread takes next, and the calls left behind
NextEvent(q) == Head(q)
RestEvents(q) == Tail(q)

\* variant: the message is inserted at the top of the log
UpdateLogPrepend(log, ev) ==
  << [line |-> ev.msg, w |-> ev.w, sig |-> "progress"] >> \o log

\* update_log(message)
UpdateLog(log, ev) ==
  Append(log, [line |-> ev.msg, w |-> ev.w, sig |-> "progress"])

\* download_finished(message)
DownloadFinished(log, ev) ==
  log \o << [line |-> ev.msg, w |-> ev.w, sig |-> "finished"],
            [line |-> <<"-----">>, w |-> ev.w, sig |-> "sep"] >>

ProcessEvent ==
  /\ app_running
  /\ queue # <<>>
  /\ LET ev == NextEvent(queue) IN
       log_area' = IF ev.slot = "update_log" THEN UpdateLog(log_area, ev)
                   ELSE DownloadFinished(log_area, ev)
  /\ queue' = RestEvents(queue)
  /\ UNCHANGED <<dirs, worker, w_url, w_folder, pc, ydl_opts,
                 exc, conns, hooked, emitted, fault, calls, inputs, app_running>>

\* ---------------------------------------------------------- specification
WorkerIds == 1 .. MaxInputs

Next ==
  \/ \E t \in UrlTexts : StartDownload(t)
  \/ \E w \in WorkerIds : RunBegin(w)
  \/ \E w \in WorkerIds, d \in StatusDicts : ProgressHook(w, d)
  \/ \E w \in WorkerIds, f \in Faults, e \in Exceptions : DownloadEnds(w, f, e)
  \/ \E w \in WorkerIds : RunFinish(w)
  \/ ProcessEvent

Spec == Init /\ [][Next]_vars

\* ================================================================ claims

\* the lines of a sequence of log entries / the messages of queued calls
Lines(s) == [i \in DOMAIN s |-> s[i].line]
Msgs(q) == [i \in DOMAIN q |-> q[i].msg]

\* the log entries of worker w that arrived through signal kind k
LogOf(w, k) == SelectSeq(log_area, LAMBDA l : l.w = w /\ l.sig = k)

\* the queued calls of worker w for signal sig
QueueOf(w, sig) == SelectSeq(queue, LAMBDA ev : ev.w = w /\ ev.sig = sig)

IsPrefix(s, t) == Len(s) <= Len(t) /\ s = SubSeq(t, 1, Len(s))

HasAnsi(text) == \E i \in DOMAIN text : text[i] \in AnsiSeqs

Terminal == {"succeeded", "failed"}

ReadyLine(url) == UiLine(<<"Ready to download: ">> \o url)

\* ---------------------------------------------------------------------- C1
\* C1: every worker started by start_download emits finished_signal exactly
\* once: nothing before the library call has ended, the emission is never
\* blocked once the call has returned or raised, and a worker that has left
\* run has emitted exactly one message, either the success message for its
\* URL or an error message, never both.
C1_ExactlyOneCompletion ==
  \A w \in Workers :
    /\ Len(emitted[w]) <= 1
    /\ (pc[w] \in {"started", "running", "returned", "raised"}
          => emitted[w] = <<>>)
    /\ (pc[w] \in {"returned", "raised"} => ENABLED RunFinish(w))
    /\ (pc[w] \in Terminal
          => /\ Len(emitted[w]) = 1
             /\ emitted[w][1] \in
                  {SuccessMsg(w_url[w])} \cup {ErrorMsg(e) : e \in Exceptions})

C1_Witness ==
  \E w, v \in Workers :
    /\ pc[w] = "succeeded" /\ emitted[w] = << SuccessMsg(w_url[w]) >>
    /\ pc[v] = "failed" /\ Len(emitted[v]) = 1

\* ---------------------------------------------------------------------- C2
\* C2 (as stated): a click with an empty or whitespace-only URL starts no
\* task and leaves the log unchanged.
C2_Original ==
  [][\A t \in UrlTexts :
       (Strip(t) = <<>> /\ StartDownload(t))
         => /\ pc' = pc /\ worker' = worker /\ dirs' = dirs
            /\ conns' = conns /\ queue' = queue
            /\ log_area' = log_area]_vars

\* C2 (amended): a click with an empty or whitespace-only URL starts no task
\* (no worker object, MainWindow.worker unchanged, no directory, no
\* connection) and appends exactly the line "Status: Please enter a URL" to
\* the log.
C2_EmptyUrlStartsNothing ==
  [][\A t \in UrlTexts :
       (Strip(t) = <<>> /\ StartDownload(t))
         => /\ pc' = pc /\ worker' = worker /\ dirs' = dirs
            /\ conns' = conns /\ queue' = queue
            /\ w_url' = w_url /\ w_folder' = w_folder
            /\ Len(log_area') = Len(log_area) + 1
            /\ SubSeq(log_area', 1, Len(log_area)) = log_area
            /\ log_area'[Len(log_area')].line
                 = <<"Status: Please enter a URL">>]_vars

C2_Witness ==
  /\ worker # 0
  /\ \E i \in DOMAIN log_area :
       log_area[i].line = <<"Status: Please enter a URL">>

\* ---------------------------------------------------------------------- C3
\* C3: the progress lines of one request appear in the log in the order the
\* progress hook emitted them, and no progress line of a request follows
\* that request's completion line.
C3_ProgressOrderCompletionLast ==
  \A w \in Workers :
    /\ IsPrefix(Lines(LogOf(w, "progress")), hooked[w])
    /\ \A i, j \in DOMAIN log_area :
         (i < j /\ log_area[i].w = w /\ log_area[i].sig = "finished")
           => ~(log_area[j].w = w /\ log_area[j].sig = "progress")

C3_Witness ==
  \E w \in Workers :
    /\ Len(hooked[w]) >= 2
    /\ hooked[w][1] # hooked[w][2]
    /\ Lines(LogOf(w, "progress")) = hooked[w]
    /\ Len(LogOf(w, "finished")) = 1

\* ---------------------------------------------------------------------- C4
\* C4 (as stated): a download attempt the library rejects or cannot complete
\* ends in an error completion message, never in the success message.
C4_Original ==
  \A w \in Workers :
    (fault[w] \in {"rejected", "crash"} /\ emitted[w] # <<>>)
      => /\ Head(emitted[w][1]) = "Error: "
         /\ emitted[w][1] # SuccessMsg(w_url[w])

\* ---------------------------------------------------------------------- C5
\* C5: an exception raised by the library call does not leave run: the
\* worker emits one "Error: <text>" message and no success message, the
\* application keeps running, and a further request can be submitted.
C5_ExceptionBecomesErrorEvent ==
  /\ app_running
  /\ \A w \in DOMAIN exc :
       /\ (pc[w] = "raised" => emitted[w] = <<>>)
       /\ (pc[w] # "raised"
             => /\ pc[w] = "failed"
                /\ emitted[w] = << <<"Error: ">> \o exc[w].text >>)
       /\ (inputs < MaxInputs => ENABLED StartDownload(<<" ", "u", " ">>))

C5_Witness ==
  \E w \in DOMAIN exc : \E i, j \in DOMAIN log_area :
    /\ pc[w] = "failed"
    /\ i < j
    /\ log_area[i].w = w /\ log_area[i].sig = "finished"
    /\ log_area[i].line = <<"Error: ">> \o exc[w].text
    /\ log_area[j] = ReadyLine(<<"u">>)

\* ---------------------------------------------------------------------- C6
\* C6 (as stated): no message emitted on progress_signal contains an ANSI
\* control sequence.
C6_Original ==
  \A w \in Workers : \A i \in DOMAIN hooked[w] : ~HasAnsi(hooked[w][i])

\* ---------------------------------------------------------------------- C7
\* C7: every accepted request has its own worker, MainWindow.worker names
\* the latest one only, and every worker, referenced or not, keeps both
\* connections: each message it emitted is in the log or still queued, in
\* emission order, and once it has ended and its calls are delivered the
\* log holds all its progress lines and exactly one completion line.
C7_ConcurrentWorkersDeliver ==
  /\ worker = Len(pc)
  /\ Len(pc) = Len(SelectSeq(log_area, LAMBDA l :
                     l.sig = "ui" /\ Head(l.line) = "Ready to download: "))
  /\ \A w \in Workers :
       /\ Lines(LogOf(w, "progress")) \o Msgs(QueueOf(w, "progress_signal"))
            = hooked[w]
       /\ Lines(LogOf(w, "finished")) \o Msgs(QueueOf(w, "finished_signal"))
            = emitted[w]
       /\ (pc[w] \in Terminal /\ queue = <<>>
             => Len(LogOf(w, "finished")) = 1)

C7_Witness ==
  \E i, j, k \in DOMAIN log_area :
    /\ Len(pc) = 2 /\ worker = 2
    /\ pc[1] \in Terminal /\ pc[2] \in Terminal /\ queue = <<>>
    /\ 1 < i /\ i < j /\ j < k
    /\ log_area[i] = ReadyLine(w_url[2])
    /\ log_area[j].w = 1 /\ log_area[j].sig = "progress"
    /\ log_area[k].w = 1 /\ log_area[k].sig = "finished"
    /\ Len(LogOf(2, "finished")) = 1

\* ---------------------------------------------------------------------- C8
\* C8: the option set of every worker writes to 'Audios/%(title)s.%(ext)s',
\* a folder start_download has created, selects 'bestaudio/best', lists the
\* post-processors FFmpegExtractAudio (mp3, quality 320), EmbedThumbnail and
\* FFmpegMetadata in this order, and registers the worker's own
\* progress_hook.
C8_AudioOptionSet ==
  \A w \in DOMAIN ydl_opts :
    LET o == ydl_opts[w] IN
    /\ o.outtmpl = <<"Audios", "/%(title)s.%(ext)s">>
    /\ o.outtmpl[1] \in dirs
    /\ o.format = "bestaudio/best"
    /\ Len(o.postprocessors) = 3
    /\ o.postprocessors[1] = [key |-> "FFmpegExtractAudio",
                              preferredcodec |-> "mp3",
                              preferredquality |-> "320"]
    /\ o.postprocessors[2].key = "EmbedThumbnail"
    /\ o.postprocessors[3].key = "FFmpegMetadata"
    /\ o.progress_hooks = <<w>>

C8_Witness ==
  \E w \in DOMAIN ydl_opts : pc[w] = "running" /\ w_folder[w] = "Audios"

ReqState(p) ==
  IF p = "started" THEN "Idle"
  ELSE IF p \in {"running", "returned", "raised"} THEN "Running"
  ELSE IF p = "succeeded" THEN "Succeeded" ELSE "Failed"

\* C10: a request moves Idle -> Running -> Succeeded or Failed only, the
\* terminal states are never left, the library is invoked at most once per
\* request, and the completion message is emitted on the step into a
\* terminal state and on no other step.
C10_RequestStateMachine ==
  [][\A w \in Workers :
       LET a == ReqState(pc[w])
           b == ReqState(pc'[w])
       IN /\ (a # b => <<a, b>> \in {<<"Idle", "Running">>,
                                     <<"Running", "Succeeded">>,
                                     <<"Running", "Failed">>})
          /\ calls'[w] <= 1
          /\ (calls'[w] # calls[w] <=> (a = "Idle" /\ b = "Running"))
          /\ (emitted'[w] # emitted[w]
                <=> (a = "Running" /\ b \in {"Succeeded", "Failed"}))]_vars

C10_Witness ==
  \E w, v \in Workers :
    /\ pc[w] = "failed" /\ calls[w] = 1
    /\ pc[v] = "succeeded" /\ calls[v] = 1
    /\ queue = <<>>


====
